---- MODULE Spec2Model ----
(***************************************************************************)
(* Segment tree over a fixed-length numeric sequence that keeps, per node, *)
(* the sum, the sum of squares and the element count of the node's range   *)
(* (src/segment_tree_variance.py, duplicated in src/arbol_segmentos.py).   *)
(*                                                                         *)
(* Numbers.  Element values and the sums kept in the nodes are integers.   *)
(* Means and variances are rationals <<num, den>> in lowest terms.         *)
(* The variable arith selects how an arithmetic result is delivered:       *)
(*   "exact" - Python int elements: + and * are exact; the true division   *)
(*             of get_mean / get_variance is taken in exact arithmetic;    *)
(*   "float" - Python float elements: every +, -, * and / is rounded to    *)
(*             the nearest value with a Precision-bit significand, ties to *)
(*             even (IEEE-754 binary64 has 53 bits; the model keeps the    *)
(*             rounding rule and shrinks the significand).                 *)
(*                                                                         *)
(* Lists.  Python lists are mutable objects held by reference.  heap maps  *)
(* an object to its contents (a function on 0 .. len-1, so the source's    *)
(* 0-based indices are kept), self_arr is the object self.arr refers to,   *)
(* held is the set of list objects the caller still refers to, nwrites the *)
(* number of stores the caller made into its lists since its last call.    *)
(* updated records that some update has succeeded since construction.      *)
(***************************************************************************)
EXTENDS Integers, Sequences, FiniteSets

VARIABLES arith, heap, self_arr, held, nwrites, n, tree, updated, last,
          schedule, ncalls, threads

vars == <<arith, heap, self_arr, held, nwrites, n, tree, updated, last,
          schedule, ncalls, threads>>

(* The callers' side: how calls are scheduled, how many were made, and     *)
(* where each calling thread is inside update.                             *)
tvars == <<schedule, ncalls, threads>>

(***************************************************************************)
(* Bounds of the model.                                                    *)
(***************************************************************************)
MaxN == 3

MaxAliasN == 2

MaxFloatN == 3

MaxWrites == 1

MaxThreadN == 2

MaxThreadCalls == 2

MaxShapeN == 6

Precision == 3

Vals == {-2, 0, 3}

FloatVals == {1, 3, 5}

(* The sequences of the documented worked examples, and the updates the    *)
(* examples apply to them.                                                 *)
ExampleLists ==
    {<<4, 8, 6, 2, 10, 12, 14, 16>>, <<42>>, <<5, 5, 5, 5>>, <<10, 20, 30, 40, 50>>}

ExampleUpdates == {<<0, 30>>, <<4, 30>>, <<-1, 30>>, <<5, 30>>}

Objs == {"arg", "own", "ret"}

(***************************************************************************)
(* Rational arithmetic.                                                    *)
(***************************************************************************)
Abs(x) == IF x < 0 THEN -x ELSE x

RECURSIVE Gcd(_, _)
Gcd(a, b) == IF b = 0 THEN a ELSE Gcd(b, a % b)

Rat(num, den) ==
    LET s == IF den < 0 THEN -1 ELSE 1
        g == Gcd(Abs(num), Abs(den))
    IN  IF num = 0 THEN <<0, 1>> ELSE <<(s * num) \div g, (s * den) \div g>>

RatAdd(x, y) == Rat(x[1] * y[2] + y[1] * x[2], x[2] * y[2])

RatSub(x, y) == Rat(x[1] * y[2] - y[1] * x[2], x[2] * y[2])

RatMul(x, y) == Rat(x[1] * y[1], x[2] * y[2])

RatDiv(x, y) == Rat(x[1] * y[2], x[2] * y[1])

RatLess(x, y) == x[1] * y[2] < y[1] * x[2]

RECURSIVE Pow2(_)
Pow2(k) == IF k = 0 THEN 1 ELSE 2 * Pow2(k - 1)

(* Nearest integer to a / d (a >= 0, d > 0), ties to the even integer. *)
NearestEven(a, d) ==
    LET q == a \div d
        r == a % d
    IN  IF 2 * r > d \/ (2 * r = d /\ q % 2 = 1) THEN q + 1 ELSE q

(* a / d > 0 rounded to a Precision-bit significand. *)
RECURSIVE RoundPos(_, _)
RoundPos(a, d) ==
    IF a < Pow2(Precision - 1) * d
      THEN RatMul(RoundPos(2 * a, d), <<1, 2>>)
      ELSE IF a >= Pow2(Precision) * d
        THEN RatMul(RoundPos(a, 2 * d), <<2, 1>>)
        ELSE <<NearestEven(a, d), 1>>

Round(x) ==
    IF x[1] = 0 THEN <<0, 1>>
    ELSE IF x[1] < 0 THEN RatMul(<<-1, 1>>, RoundPos(-x[1], x[2]))
    ELSE RoundPos(x[1], x[2])

(* The value an arithmetic operation delivers for the exact result x. *)
Fl(x) == IF arith = "float" THEN Round(x) ELSE x

(* Python's a + b and a * b on integer-valued operands. *)
PyAdd(a, b) == Fl(<<a + b, 1>>)[1]

PyMul(a, b) == Fl(<<a * b, 1>>)[1]

(***************************************************************************)
(* class Node                                                              *)
(***************************************************************************)
Node(suma, suma_cuadrados, count) ==
    [suma |-> suma, suma_cuadrados |-> suma_cuadrados, count |-> count]

(* Variant: a Node created without arguments counts one element. *)
NodeCountingOne == Node(0, 0, 1)

(* Node(): the defaults of __init__. *)
EmptyNode == Node(0, 0, 0)

(* Variant: a leaf stores the value in place of its square. *)
LeafWithoutSquare(value) == Node(value, value, 1)

Leaf(value) == Node(value, PyMul(value, value), 1)

(* Variant: the computed difference is returned without the clamp. *)
NoClamp(x) == x

(* max(0, x) *)
Max0(x) == IF RatLess(x, <<0, 1>>) THEN <<0, 1>> ELSE x

(* E[X^2] - (E[X])^2 as get_variance computes it, before the clamp. *)
Varianza(nd) ==
    LET media == Fl(Rat(nd.suma, nd.count))
        media_cuadrados == Fl(Rat(nd.suma_cuadrados, nd.count))
    IN  Fl(RatSub(media_cuadrados, Fl(RatMul(media, media))))

(* Variant: the sample variance, dividing the squared deviations by        *)
(* count - 1 instead of count.                                             *)
SampleVariance(nd) ==
    IF nd.count <= 1 THEN <<0, 1>>
    ELSE LET media == Fl(Rat(nd.suma, nd.count))
             desv == Fl(RatSub(<<nd.suma_cuadrados, 1>>,
                               Fl(RatMul(<<nd.suma, 1>>, media))))
         IN  Max0(Fl(RatDiv(desv, <<nd.count - 1, 1>>)))

get_variance(nd) ==
    IF nd.count = 0 THEN <<0, 1>> ELSE Max0(Varianza(nd))

get_mean(nd) ==
    IF nd.count = 0 THEN <<0, 1>> ELSE Fl(Rat(nd.suma, nd.count))

(***************************************************************************)
(* class SegmentTreeVariance: the recursive helpers                        *)
(***************************************************************************)
(* Variant: the right operand is counted as a single element. *)
MergeCountsRightAsOne(left_node, right_node) ==
    Node(PyAdd(left_node.suma, right_node.suma),
         PyAdd(left_node.suma_cuadrados, right_node.suma_cuadrados),
         left_node.count + 1)

_merge(left_node, right_node) ==
    Node(PyAdd(left_node.suma, right_node.suma),
         PyAdd(left_node.suma_cuadrados, right_node.suma_cuadrados),
         left_node.count + right_node.count)

(* Variant: the range is split after its first element. *)
MidAtLeft(left, right) == left

Mid(left, right) == (left + right) \div 2

LeftChild(node_idx) == 2 * node_idx + 1

RightChild(node_idx) == 2 * node_idx + 2

(* tree[node_idx] = nd; a store outside the list raises and stores nothing. *)
SetSlot(t, node_idx, nd) ==
    IF node_idx \in DOMAIN t THEN [t EXCEPT ![node_idx] = nd] ELSE t

(* tree[node_idx]; a read outside the list raises and yields no node. *)
GetSlot(t, node_idx) ==
    IF node_idx \in DOMAIN t THEN t[node_idx] ELSE EmptyNode

RECURSIVE _build(_, _, _, _, _)
_build(t, a, node_idx, left, right) ==
    IF left = right
      THEN SetSlot(t, node_idx, Leaf(a[left]))
      ELSE LET mid == Mid(left, right)
               t1 == _build(t, a, LeftChild(node_idx), left, mid)
               t2 == _build(t1, a, RightChild(node_idx), mid + 1, right)
           IN  SetSlot(t2, node_idx,
                       _merge(GetSlot(t2, LeftChild(node_idx)),
                              GetSlot(t2, RightChild(node_idx))))

(* Variant: the leaf is replaced but the ancestors are not recomputed on   *)
(* the way back.                                                           *)
RECURSIVE UpdateLeafOnly(_, _, _, _, _, _)
UpdateLeafOnly(t, node_idx, left, right, target_idx, new_value) ==
    IF left = right
      THEN SetSlot(t, node_idx, Leaf(new_value))
      ELSE IF target_idx <= Mid(left, right)
        THEN UpdateLeafOnly(t, LeftChild(node_idx), left, Mid(left, right),
                            target_idx, new_value)
        ELSE UpdateLeafOnly(t, RightChild(node_idx), Mid(left, right) + 1, right,
                            target_idx, new_value)

(* Variant: the descent enters both children, so every leaf below the root *)
(* is replaced.                                                            *)
RECURSIVE UpdateBothChildren(_, _, _, _, _, _)
UpdateBothChildren(t, node_idx, left, right, target_idx, new_value) ==
    IF left = right
      THEN SetSlot(t, node_idx, Leaf(new_value))
      ELSE LET mid == Mid(left, right)
               t1 == UpdateBothChildren(t, LeftChild(node_idx), left, mid,
                                        target_idx, new_value)
               t2 == UpdateBothChildren(t1, RightChild(node_idx), mid + 1, right,
                                        target_idx, new_value)
           IN  SetSlot(t2, node_idx,
                       _merge(GetSlot(t2, LeftChild(node_idx)),
                              GetSlot(t2, RightChild(node_idx))))

(* Variant: the descent goes left only when target_idx < mid. *)
RECURSIVE UpdateStrictMid(_, _, _, _, _, _)
UpdateStrictMid(t, node_idx, left, right, target_idx, new_value) ==
    IF left = right
      THEN SetSlot(t, node_idx, Leaf(new_value))
      ELSE LET mid == Mid(left, right)
               t1 == IF target_idx < mid
                       THEN UpdateStrictMid(t, LeftChild(node_idx), left, mid,
                                            target_idx, new_value)
                       ELSE UpdateStrictMid(t, RightChild(node_idx), mid + 1,
                                            right, target_idx, new_value)
           IN  SetSlot(t1, node_idx,
                       _merge(GetSlot(t1, LeftChild(node_idx)),
                              GetSlot(t1, RightChild(node_idx))))

(* Variant: the leaf is updated in place and counts the new value as one   *)
(* more element.                                                           *)
RECURSIVE UpdateIncrementsCount(_, _, _, _, _, _)
UpdateIncrementsCount(t, node_idx, left, right, target_idx, new_value) ==
    IF left = right
      THEN SetSlot(t, node_idx,
                   Node(new_value, PyMul(new_value, new_value),
                        GetSlot(t, node_idx).count + 1))
      ELSE LET mid == Mid(left, right)
               t1 == IF target_idx <= mid
                       THEN UpdateIncrementsCount(t, LeftChild(node_idx), left, mid,
                                                  target_idx, new_value)
                       ELSE UpdateIncrementsCount(t, RightChild(node_idx), mid + 1,
                                                  right, target_idx, new_value)
           IN  SetSlot(t1, node_idx,
                       _merge(GetSlot(t1, LeftChild(node_idx)),
                              GetSlot(t1, RightChild(node_idx))))

(* Variant: the new value is merged into the leaf that is there instead of *)
(* replacing it.                                                           *)
RECURSIVE UpdateAddsToLeaf(_, _, _, _, _, _)
UpdateAddsToLeaf(t, node_idx, left, right, target_idx, new_value) ==
    IF left = right
      THEN SetSlot(t, node_idx, _merge(GetSlot(t, node_idx), Leaf(new_value)))
      ELSE LET mid == Mid(left, right)
               t1 == IF target_idx <= mid
                       THEN UpdateAddsToLeaf(t, LeftChild(node_idx), left, mid,
                                             target_idx, new_value)
                       ELSE UpdateAddsToLeaf(t, RightChild(node_idx), mid + 1,
                                             right, target_idx, new_value)
           IN  SetSlot(t1, node_idx,
                       _merge(GetSlot(t1, LeftChild(node_idx)),
                              GetSlot(t1, RightChild(node_idx))))

RECURSIVE _update_recursive(_, _, _, _, _, _)
_update_recursive(t, node_idx, left, right, target_idx, new_value) ==
    IF left = right
      THEN SetSlot(t, node_idx, Leaf(new_value))
      ELSE LET mid == Mid(left, right)
               t1 == IF target_idx <= mid
                       THEN _update_recursive(t, LeftChild(node_idx), left, mid,
                                              target_idx, new_value)
                       ELSE _update_recursive(t, RightChild(node_idx), mid + 1,
                                              right, target_idx, new_value)
           IN  SetSlot(t1, node_idx,
                       _merge(GetSlot(t1, LeftChild(node_idx)),
                              GetSlot(t1, RightChild(node_idx))))

(* Variant: a node is returned whole as soon as one end of its range lies  *)
(* inside the query ("or" for "and" in the total-overlap test).            *)
RECURSIVE QueryLooseOverlap(_, _, _, _, _, _)
QueryLooseOverlap(t, node_idx, left, right, query_left, query_right) ==
    IF query_right < left \/ query_left > right
      THEN EmptyNode
      ELSE IF query_left <= left \/ right <= query_right
        THEN GetSlot(t, node_idx)
        ELSE _merge(QueryLooseOverlap(t, LeftChild(node_idx), left, Mid(left, right),
                                      query_left, query_right),
                    QueryLooseOverlap(t, RightChild(node_idx), Mid(left, right) + 1,
                                      right, query_left, query_right))

RECURSIVE _query_recursive(_, _, _, _, _, _)
_query_recursive(t, node_idx, left, right, query_left, query_right) ==
    IF query_right < left \/ query_left > right
      THEN EmptyNode
      ELSE IF query_left <= left /\ right <= query_right
        THEN GetSlot(t, node_idx)
        ELSE LET mid == Mid(left, right)
                 left_result == _query_recursive(t, LeftChild(node_idx), left, mid,
                                                 query_left, query_right)
                 right_result == _query_recursive(t, RightChild(node_idx), mid + 1,
                                                  right, query_left, query_right)
             IN  _merge(left_result, right_result)

(***************************************************************************)
(* The walk on Node objects.  A Node is a mutable object and the walk      *)
(* hands on references: on total overlap it returns the stored object      *)
(* self.tree[node_idx] itself.  A walk result records the node array after *)
(* the walk (t), the slot whose stored object the result is (alias, -1 for *)
(* an object created by the walk) and the object's fields (node).          *)
(***************************************************************************)
WalkResult(t, alias, node) == [t |-> t, alias |-> alias, node |-> node]

(* Variant: the sums are accumulated into an operand that is a stored      *)
(* object, and that object is returned.                                    *)
WalkMergeInPlace(t, l, r) ==
    LET m == _merge(l.node, r.node)
        k == IF l.alias \in DOMAIN t THEN l.alias ELSE r.alias
    IN  WalkResult(SetSlot(t, k, m), k, m)

(* _merge reads its operands and returns a new Node. *)
WalkMerge(t, l, r) == WalkResult(t, -1, _merge(l.node, r.node))

RECURSIVE QueryWalk(_, _, _, _, _, _)
QueryWalk(t, node_idx, left, right, query_left, query_right) ==
    IF query_right < left \/ query_left > right
      THEN WalkResult(t, -1, EmptyNode)
      ELSE IF query_left <= left /\ right <= query_right
        THEN WalkResult(t, node_idx, GetSlot(t, node_idx))
        ELSE LET mid == Mid(left, right)
                 left_result == QueryWalk(t, LeftChild(node_idx), left, mid,
                                          query_left, query_right)
                 right_result == QueryWalk(left_result.t, RightChild(node_idx),
                                           mid + 1, right, query_left, query_right)
             IN  WalkMerge(right_result.t, left_result, right_result)

(***************************************************************************)
(* Python lists                                                            *)
(***************************************************************************)
EmptyList == [i \in {} |-> 0]

Len0(a) == Cardinality(DOMAIN a)

Lists(S, k) == [0 .. k - 1 -> S]

FromSeq(s) == [i \in 0 .. Len(s) - 1 |-> s[i + 1]]

(* Variant: the list is handed on by reference instead of being copied. *)
ListAlias(src, fresh) == src

(* arr[:] : the result is the fresh object, never the source object. *)
ListCopy(src, fresh) == fresh

(* Position addressed by a[i]: a negative i counts from the end. *)
ListPos(a, i) == IF i < 0 THEN i + Len0(a) ELSE i

(* Contents of objects nobody refers to are reclaimed. *)
Collect(h, sa, hd) == [o \in Objs |-> IF o = sa \/ o \in hd THEN h[o] ELSE EmptyList]

(* The caller's reference to a list returned by get_array lives until the  *)
(* caller's next call on the tree.                                         *)
DropReturned(hd) == hd \cap {"arg"}

(***************************************************************************)
(* Observation of the last call: operation, arguments, error raised (or    *)
(* "none"), value returned (NoVal when nothing is returned) and the list   *)
(* object returned ("none" when no list is returned).                      *)
(***************************************************************************)
NoVal == <<0, 0>>

Call(op, a, b, err, val, ref) ==
    [op |-> op, a |-> a, b |-> b, err |-> err, val |-> val, ref |-> ref]

arr == heap[self_arr]

Indices == -1 .. n

(* Inputs of the calls: an instance built from bounded data is driven with *)
(* every index and value of the bounded sets, a worked example with the    *)
(* updates of the examples.                                                *)
IsExample == arith = "exact" /\ \E i \in DOMAIN arr : arr[i] \notin Vals

InputVals == IF arith = "float" THEN FloatVals ELSE Vals

UpdateInputs == IF IsExample THEN ExampleUpdates ELSE Indices \X InputVals

WriteInputs == IF IsExample THEN {30} ELSE InputVals

(***************************************************************************)
(* SegmentTreeVariance.__init__                                            *)
(***************************************************************************)
(* Variant: two slots per element. *)
CapacityTwoN(k) == 2 * k

(* 4 * self.n *)
Capacity(k) == 4 * k

(* [Node() for _ in range(4 * self.n)] *)
BlankTree(k) == [i \in 0 .. Capacity(k) - 1 |-> EmptyNode]

Construct(a, keep, mode) ==
    LET sa == ListCopy("arg", "own")
        hd == IF keep THEN {"arg"} ELSE {}
        h  == [o \in Objs |-> IF o = "arg" \/ o = sa THEN a ELSE EmptyList]
        k  == Len0(a)
    IN  /\ arith = mode
        /\ self_arr = sa
        /\ held = hd
        /\ nwrites = 0
        /\ heap = Collect(h, sa, hd)
        /\ n = k
        /\ tree = IF k > 0 THEN _build(BlankTree(k), a, 0, 0, k - 1) ELSE BlankTree(k)
        /\ updated = FALSE
        /\ last = Call("construct", 0, 0, "none", NoVal, "none")

(* The calling threads.  Under the specifications of one caller none is    *)
(* ever inside a call.                                                     *)
Threads == {1, 2}

IdleThread ==
    [pc |-> "idle", index |-> 0, value |-> 0, frames |-> <<>>,
     left_read |-> EmptyNode, right_read |-> EmptyNode]

Callers(s) ==
    /\ schedule = s
    /\ ncalls = 0
    /\ threads = [t \in Threads |-> IdleThread]

Init ==
    /\ Callers("serial")
    /\ \/ \E k \in 0 .. MaxN : \E a \in Lists(Vals, k) : Construct(a, FALSE, "exact")
       \/ \E s \in ExampleLists : Construct(FromSeq(s), FALSE, "exact")

InitAlias ==
    /\ Callers("serial")
    /\ \E k \in 0 .. MaxAliasN : \E a \in Lists(Vals, k) : Construct(a, TRUE, "exact")

(* Float elements, and the two worked examples of equal integer elements. *)
InitFloat ==
    /\ Callers("serial")
    /\ \/ \E k \in 0 .. MaxFloatN : \E a \in Lists(FloatVals, k) : Construct(a, FALSE, "float")
       \/ \E s \in {<<5, 5, 5, 5>>, <<42>>} : Construct(FromSeq(s), FALSE, "exact")

(***************************************************************************)
(* SegmentTreeVariance.update                                              *)
(***************************************************************************)
(* Variant: the lower bound of the index is not tested. *)
IndexAboveOnly(index) == index >= n

(* Variant: index 0 is rejected as well. *)
IndexNotPositive(index) == index <= 0 \/ index >= n

IndexOutOfRange(index) == index < 0 \/ index >= n

Update(index, new_value) ==
    LET hd  == DropReturned(held)
        pos == ListPos(arr, index)
    IN  /\ held' = hd
        /\ nwrites' = 0
        /\ UNCHANGED <<arith, self_arr, n, tvars>>
        /\ IF IndexOutOfRange(index) \/ pos \notin DOMAIN arr
             THEN /\ heap' = Collect(heap, self_arr, hd)
                  /\ tree' = tree
                  /\ updated' = updated
                  /\ last' = Call("update", index, new_value, "IndexError", NoVal, "none")
             ELSE /\ heap' = Collect([heap EXCEPT ![self_arr][pos] = new_value], self_arr, hd)
                  /\ tree' = _update_recursive(tree, 0, 0, n - 1, index, new_value)
                  /\ updated' = TRUE
                  /\ last' = Call("update", index, new_value, "none", NoVal, "none")

(***************************************************************************)
(* SegmentTreeVariance.query_variance / query_mean / query_sum             *)
(***************************************************************************)
(* Variant: an inverted range is not rejected. *)
InvalidRangeNoOrder(query_left, query_right) ==
    query_left < 0 \/ query_right >= n

(* Variant: the upper bound is tested with > instead of >=. *)
InvalidRangeOffByOne(query_left, query_right) ==
    query_left < 0 \/ query_right > n \/ query_left > query_right

InvalidRange(query_left, query_right) ==
    query_left < 0 \/ query_right >= n \/ query_left > query_right

(* What each public query returns: <<error, value>>. *)
query_variance(t, query_left, query_right) ==
    IF InvalidRange(query_left, query_right) THEN <<"ValueError", NoVal>>
    ELSE <<"none", get_variance(_query_recursive(t, 0, 0, n - 1, query_left, query_right))>>

query_mean(t, query_left, query_right) ==
    IF InvalidRange(query_left, query_right) THEN <<"ValueError", NoVal>>
    ELSE <<"none", get_mean(_query_recursive(t, 0, 0, n - 1, query_left, query_right))>>

query_sum(t, query_left, query_right) ==
    IF InvalidRange(query_left, query_right) THEN <<"ValueError", NoVal>>
    ELSE <<"none", <<_query_recursive(t, 0, 0, n - 1, query_left, query_right).suma, 1>>>>

(* A public query: the range test, then the walk from the root, then the   *)
(* statistic of the node the walk returned.                                *)
Walked(query_left, query_right) ==
    IF InvalidRange(query_left, query_right) THEN WalkResult(tree, -1, EmptyNode)
    ELSE QueryWalk(tree, 0, 0, n - 1, query_left, query_right)

Outcome(op, query_left, query_right, result) ==
    IF InvalidRange(query_left, query_right) THEN <<"ValueError", NoVal>>
    ELSE IF op = "query_variance" THEN <<"none", get_variance(result)>>
    ELSE IF op = "query_mean" THEN <<"none", get_mean(result)>>
    ELSE <<"none", <<result.suma, 1>>>>

Returned(op, query_left, query_right) ==
    \E w \in {Walked(query_left, query_right)} :
    \E res \in {Outcome(op, query_left, query_right, w.node)} :
    \E hd \in {DropReturned(held)} :
        /\ held' = hd
        /\ nwrites' = 0
        /\ heap' = Collect(heap, self_arr, hd)
        /\ tree' = w.t
        /\ last' = Call(op, query_left, query_right, res[1], res[2], "none")
        /\ UNCHANGED <<arith, self_arr, n, updated, tvars>>

QueryVariance(query_left, query_right) ==
    Returned("query_variance", query_left, query_right)

QueryMean(query_left, query_right) == Returned("query_mean", query_left, query_right)

QuerySum(query_left, query_right) == Returned("query_sum", query_left, query_right)

(***************************************************************************)
(* SegmentTreeVariance.get_array                                           *)
(***************************************************************************)
GetArray ==
    LET r  == ListCopy(self_arr, "ret")
        hd == DropReturned(held) \cup {r}
    IN  /\ held' = hd
        /\ nwrites' = 0
        /\ heap' = Collect([heap EXCEPT ![r] = heap[self_arr]], self_arr, hd)
        /\ last' = Call("get_array", 0, 0, "none", NoVal, r)
        /\ UNCHANGED <<arith, self_arr, n, tree, updated, tvars>>

(***************************************************************************)
(* The caller stores into a list it holds (lst[i] = v).                    *)
(***************************************************************************)
CallerWrite(o, i, v) ==
    /\ o \in held
    /\ i \in DOMAIN heap[o]
    /\ nwrites < MaxWrites
    /\ nwrites' = nwrites + 1
    /\ heap' = [heap EXCEPT ![o][i] = v]
    /\ last' = Call("caller_write", i, v, "none", NoVal, o)
    /\ UNCHANGED <<arith, self_arr, held, n, tree, updated, tvars>>

Next ==
    \/ \E u \in UpdateInputs : Update(u[1], u[2])
    \/ \E ql \in Indices, qr \in Indices : QueryVariance(ql, qr)
    \/ \E ql \in Indices, qr \in Indices : QueryMean(ql, qr)
    \/ \E ql \in Indices, qr \in Indices : QuerySum(ql, qr)
    \/ GetArray

(* The public operations on a tree whose caller keeps no list. *)
Spec == Init /\ [][Next]_vars

(* The caller keeps the list it passed to the constructor and stores into  *)
(* it and into the lists get_array returns.                                *)
NextAlias ==
    \/ \E u \in UpdateInputs : Update(u[1], u[2])
    \/ \E ql \in Indices, qr \in Indices : QuerySum(ql, qr)
    \/ GetArray
    \/ \E o \in Objs, i \in 0 .. n - 1, v \in WriteInputs : CallerWrite(o, i, v)

SpecAlias == InitAlias /\ [][NextAlias]_vars

(* Float elements: updates, and the queries of the variance and of the sum *)
(* under rounding.                                                         *)
NextFloat ==
    \/ \E u \in UpdateInputs : Update(u[1], u[2])
    \/ \E ql \in Indices, qr \in Indices : QueryVariance(ql, qr)
    \/ \E ql \in Indices, qr \in Indices : QuerySum(ql, qr)

SpecFloat == InitFloat /\ [][NextFloat]_vars

(***************************************************************************)
(* update called from two threads.  The class takes no lock, so a thread   *)
(* inside update can be preempted between any two accesses of self.arr and *)
(* self.tree.  A call is the store into self.arr, the store of the leaf    *)
(* and, for each ancestor from the deepest to the root, the read of        *)
(* self.tree[left_child], the read of self.tree[right_child] and the store *)
(* of self.tree[node_idx].  frames is the stack of the recursive calls     *)
(* that have not yet stored their slot.  Under the "serial" schedule a     *)
(* call starts only when no other call is in progress.                     *)
(***************************************************************************)
Frame(node_idx, left, right) == [node_idx |-> node_idx, left |-> left, right |-> right]

RECURSIVE PathFrames(_, _, _, _)
PathFrames(node_idx, left, right, target_idx) ==
    IF left = right
      THEN <<Frame(node_idx, left, right)>>
      ELSE LET mid == Mid(left, right)
           IN  <<Frame(node_idx, left, right)>> \o
               (IF target_idx <= mid
                  THEN PathFrames(LeftChild(node_idx), left, mid, target_idx)
                  ELSE PathFrames(RightChild(node_idx), mid + 1, right, target_idx))

Top(frames) == frames[Len(frames)]

Pop(frames) == SubSeq(frames, 1, Len(frames) - 1)

Quiescent == \A t \in Threads : threads[t].pc = "idle"

MayCall(t) ==
    /\ threads[t].pc = "idle"
    /\ ncalls < MaxThreadCalls
    /\ schedule = "serial" => Quiescent

(* Variant: the slot is recomputed from the left child alone. *)
RecomputeFromLeft(left_read, right_read) == left_read

(* self.tree[node_idx] = self._merge(self.tree[left_child], self.tree[right_child]) *)
Recompute(left_read, right_read) == _merge(left_read, right_read)

(* The frame on top has stored its slot and returns to its caller; the     *)
(* outermost frame returns from update.                                    *)
FrameReturns(t) ==
    LET rest == Pop(threads[t].frames)
    IN  IF rest = <<>>
          THEN /\ threads' = [threads EXCEPT ![t] = [IdleThread EXCEPT
                                 !.index = threads[t].index,
                                 !.value = threads[t].value]]
               /\ last' = Call("update", threads[t].index, threads[t].value,
                               "none", NoVal, "none")
          ELSE /\ threads' = [threads EXCEPT ![t].frames = rest,
                                             ![t].pc = "read_left"]
               /\ last' = last

(* update: the index test and self.arr[index] = new_value. *)
ThreadCall(t, index, new_value) ==
    /\ MayCall(t)
    /\ ncalls' = ncalls + 1
    /\ UNCHANGED <<arith, self_arr, held, nwrites, n, tree, schedule>>
    /\ IF IndexOutOfRange(index)
         THEN /\ heap' = heap
              /\ updated' = updated
              /\ threads' = [threads EXCEPT ![t] = [IdleThread EXCEPT
                                !.index = index, !.value = new_value]]
              /\ last' = Call("update", index, new_value, "IndexError", NoVal, "none")
         ELSE /\ heap' = [heap EXCEPT ![self_arr][ListPos(arr, index)] = new_value]
              /\ updated' = TRUE
              /\ threads' = [threads EXCEPT ![t] =
                                [pc |-> "leaf", index |-> index, value |-> new_value,
                                 frames |-> PathFrames(0, 0, n - 1, index),
                                 left_read |-> EmptyNode, right_read |-> EmptyNode]]
              /\ last' = last

(* _update_recursive at the leaf: self.tree[node_idx] = Node(...). *)
ThreadWriteLeaf(t) ==
    /\ threads[t].pc = "leaf"
    /\ tree' = SetSlot(tree, Top(threads[t].frames).node_idx, Leaf(threads[t].value))
    /\ FrameReturns(t)
    /\ UNCHANGED <<arith, heap, self_arr, held, nwrites, n, updated, schedule, ncalls>>

ThreadReadLeft(t) ==
    /\ threads[t].pc = "read_left"
    /\ threads' = [threads EXCEPT
                     ![t].left_read = GetSlot(tree, LeftChild(Top(threads[t].frames).node_idx)),
                     ![t].pc = "read_right"]
    /\ UNCHANGED <<arith, heap, self_arr, held, nwrites, n, tree, updated, last,
                   schedule, ncalls>>

ThreadReadRight(t) ==
    /\ threads[t].pc = "read_right"
    /\ threads' = [threads EXCEPT
                     ![t].right_read = GetSlot(tree, RightChild(Top(threads[t].frames).node_idx)),
                     ![t].pc = "write"]
    /\ UNCHANGED <<arith, heap, self_arr, held, nwrites, n, tree, updated, last,
                   schedule, ncalls>>

ThreadWriteParent(t) ==
    /\ threads[t].pc = "write"
    /\ tree' = SetSlot(tree, Top(threads[t].frames).node_idx,
                       Recompute(threads[t].left_read, threads[t].right_read))
    /\ FrameReturns(t)
    /\ UNCHANGED <<arith, heap, self_arr, held, nwrites, n, updated, schedule, ncalls>>

(* The threads start on a tree of zeros and store values other than zero. *)
ThreadInit == {0}

ThreadVals == {-2, 3}

InitThreads ==
    /\ \E s \in {"serial", "interleaved"} : Callers(s)
    /\ \E k \in 0 .. MaxThreadN : \E a \in Lists(ThreadInit, k) :
          Construct(a, FALSE, "exact")

NextThreads ==
    \/ \E t \in Threads, i \in Indices, v \in ThreadVals : ThreadCall(t, i, v)
    \/ \E t \in Threads : ThreadWriteLeaf(t)
    \/ \E t \in Threads : ThreadReadLeft(t)
    \/ \E t \in Threads : ThreadReadRight(t)
    \/ \E t \in Threads : ThreadWriteParent(t)
    \/ \E ql \in Indices, qr \in Indices : Quiescent /\ QuerySum(ql, qr)

(* Two threads calling update, and queries between the calls. *)
SpecThreads == InitThreads /\ [][NextThreads]_vars

(***************************************************************************)
(* The shape of the recursions.  Which slots _build, _update_recursive and *)
(* _query_recursive touch, and how the walk classifies the nodes it        *)
(* visits, depends on n and on the arguments, not on the elements: the     *)
(* trees are built over zeros, for every length up to MaxShapeN.           *)
(***************************************************************************)
ShapeVals == {0, 3}

InitShape ==
    /\ Callers("serial")
    /\ \E k \in 0 .. MaxShapeN : \E a \in Lists({0}, k) : Construct(a, FALSE, "exact")

NextShape ==
    \/ \E index \in Indices, v \in ShapeVals : Update(index, v)
    \/ \E ql \in Indices, qr \in Indices : QueryVariance(ql, qr)

SpecShape == InitShape /\ [][NextShape]_vars

(* The slots _build(node_idx, left, right) reads or writes. *)
RECURSIVE BuildSlots(_, _, _)
BuildSlots(node_idx, left, right) ==
    IF left = right
      THEN {node_idx}
      ELSE LET mid == Mid(left, right)
           IN  {node_idx, LeftChild(node_idx), RightChild(node_idx)}
                 \cup BuildSlots(LeftChild(node_idx), left, mid)
                 \cup BuildSlots(RightChild(node_idx), mid + 1, right)

(* The slots _update_recursive reads or writes: the path, and the two      *)
(* children of every ancestor.                                             *)
RECURSIVE UpdateSlots(_, _, _, _)
UpdateSlots(node_idx, left, right, target_idx) ==
    IF left = right
      THEN {node_idx}
      ELSE LET mid == Mid(left, right)
           IN  {node_idx, LeftChild(node_idx), RightChild(node_idx)}
                 \cup (IF target_idx <= mid
                         THEN UpdateSlots(LeftChild(node_idx), left, mid, target_idx)
                         ELSE UpdateSlots(RightChild(node_idx), mid + 1, right,
                                          target_idx))

(* The calls of _query_recursive made for one query, each with the case it *)
(* takes and its depth below the root.                                     *)
Visit(node_idx, left, right, level, case) ==
    [node_idx |-> node_idx, left |-> left, right |-> right,
     level |-> level, case |-> case]

(* Variant: the walk returns a stored node only at a leaf and descends     *)
(* into every other node that overlaps the query.                          *)
RECURSIVE VisitsDescendToLeaves(_, _, _, _, _, _)
VisitsDescendToLeaves(node_idx, left, right, level, query_left, query_right) ==
    IF query_right < left \/ query_left > right
      THEN {Visit(node_idx, left, right, level, "none")}
      ELSE IF left = right
        THEN {Visit(node_idx, left, right, level, "total")}
        ELSE LET mid == Mid(left, right)
             IN  {Visit(node_idx, left, right, level, "partial")}
                   \cup VisitsDescendToLeaves(LeftChild(node_idx), left, mid,
                                              level + 1, query_left, query_right)
                   \cup VisitsDescendToLeaves(RightChild(node_idx), mid + 1, right,
                                              level + 1, query_left, query_right)

(* Variant: a node that only touches an end of the query range is treated  *)
(* as not overlapping ("<=" for "<" in the no-overlap test).               *)
RECURSIVE VisitsPruneTouching(_, _, _, _, _, _)
VisitsPruneTouching(node_idx, left, right, level, query_left, query_right) ==
    IF query_right <= left \/ query_left >= right
      THEN {Visit(node_idx, left, right, level, "none")}
      ELSE IF query_left <= left /\ right <= query_right
        THEN {Visit(node_idx, left, right, level, "total")}
        ELSE LET mid == Mid(left, right)
             IN  {Visit(node_idx, left, right, level, "partial")}
                   \cup VisitsPruneTouching(LeftChild(node_idx), left, mid, level + 1,
                                            query_left, query_right)
                   \cup VisitsPruneTouching(RightChild(node_idx), mid + 1, right,
                                            level + 1, query_left, query_right)

RECURSIVE Visits(_, _, _, _, _, _)
Visits(node_idx, left, right, level, query_left, query_right) ==
    IF query_right < left \/ query_left > right
      THEN {Visit(node_idx, left, right, level, "none")}
      ELSE IF query_left <= left /\ right <= query_right
        THEN {Visit(node_idx, left, right, level, "total")}
        ELSE LET mid == Mid(left, right)
             IN  {Visit(node_idx, left, right, level, "partial")}
                   \cup Visits(LeftChild(node_idx), left, mid, level + 1,
                               query_left, query_right)
                   \cup Visits(RightChild(node_idx), mid + 1, right, level + 1,
                               query_left, query_right)

QueryVisits(r) == Visits(0, 0, n - 1, 0, r[1], r[2])

(* The slots a query reads: self.tree[node_idx] at total overlap. *)
QuerySlots(r) == {v.node_idx : v \in {w \in QueryVisits(r) : w.case = "total"}}

(***************************************************************************)
(* Reference statistics, computed directly over the backing sequence.      *)
(***************************************************************************)
RECURSIVE DirectSum(_, _, _)
DirectSum(a, lo, hi) == IF lo > hi THEN 0 ELSE a[lo] + DirectSum(a, lo + 1, hi)

RECURSIVE DirectSumSq(_, _, _)
DirectSumSq(a, lo, hi) ==
    IF lo > hi THEN 0 ELSE a[lo] * a[lo] + DirectSumSq(a, lo + 1, hi)

DirectMean(a, lo, hi) == Rat(DirectSum(a, lo, hi), hi - lo + 1)

(* Population variance E[X^2] - (E[X])^2, dividing by the element count. *)
DirectVariance(a, lo, hi) ==
    LET c == hi - lo + 1
    IN  RatSub(Rat(DirectSumSq(a, lo, hi), c),
               RatMul(DirectMean(a, lo, hi), DirectMean(a, lo, hi)))

ValidRanges == {r \in (0 .. n - 1) \X (0 .. n - 1) : r[1] <= r[2]}

Succeeded(op) == last.op = op /\ last.err = "none"

ScenarioA == FromSeq(<<4, 8, 6, 2, 10, 12, 14, 16>>)

C2_MeanAndPopulationVariance ==
    /\ \A r \in ValidRanges :
          /\ query_mean(tree, r[1], r[2]) = <<"none", DirectMean(arr, r[1], r[2])>>
          /\ query_variance(tree, r[1], r[2]) = <<"none", DirectVariance(arr, r[1], r[2])>>
    /\ Succeeded("query_mean") => last.val = DirectMean(arr, last.a, last.b)
    /\ Succeeded("query_variance") => last.val = DirectVariance(arr, last.a, last.b)
    /\ arr = ScenarioA =>
          /\ query_mean(tree, 0, 3) = <<"none", <<5, 1>>>>
          /\ query_variance(tree, 0, 3) = <<"none", <<5, 1>>>>

(* A variance that is not an integer, returned by an updated tree. *)
C2_Witness ==
    /\ Succeeded("query_variance") /\ updated
    /\ n = 3 /\ last.a = 0 /\ last.b = 2
    /\ last.val = DirectVariance(arr, 0, 2) /\ last.val[2] > 1

(***************************************************************************)
(* C3.  A successful update(i, v) sets element i of the backing sequence   *)
(* to v and leaves the other elements unchanged; every query over a range  *)
(* without i walks to the aggregate it walked to before, so returns what   *)
(* it returned before; every query over a range with i returns the         *)
(* statistic of the sequence with position i replaced.                     *)
(***************************************************************************)
Replaced(a, i, v) == [j \in DOMAIN a |-> IF j = i THEN v ELSE a[j]]

UpdateEffect(i, v) ==
    /\ arr' = Replaced(arr, i, v)
    /\ \A r \in ValidRanges :
          (i < r[1] \/ i > r[2])
             => _query_recursive(tree', 0, 0, n - 1, r[1], r[2])
                   = _query_recursive(tree, 0, 0, n - 1, r[1], r[2])

(* After a successful update every query, in particular each one over a    *)
(* range with the updated position, returns the statistic of the sequence  *)
(* that now holds the new value.                                           *)
UpdateReflected ==
    Succeeded("update") =>
        /\ arr[last.a] = last.b
        /\ \A r \in ValidRanges :
              /\ query_sum(tree, r[1], r[2])
                    = <<"none", <<DirectSum(arr, r[1], r[2]), 1>>>>
              /\ query_mean(tree, r[1], r[2])
                    = <<"none", DirectMean(arr, r[1], r[2])>>
              /\ query_variance(tree, r[1], r[2])
                    = <<"none", DirectVariance(arr, r[1], r[2])>>

C3_UpdateConsistency ==
    /\ []UpdateReflected
    /\ [][(last'.op = "update" /\ last'.err = "none")
            => UpdateEffect(last'.a, last'.b)]_vars

(* The middle element of a 3-element tree was updated to a value that      *)
(* differs from both neighbours.                                           *)
C3_Witness ==
    /\ Succeeded("update") /\ n = 3 /\ last.a = 1
    /\ arr[1] = last.b /\ arr[0] # arr[1] /\ arr[2] # arr[1]

(***************************************************************************)
(* C4.  update(index, value) with index < 0 or index >= n raises           *)
(* IndexError and mutates nothing: the backing sequence and every node     *)
(* slot are as before; a negative index never counts from the end.         *)
(***************************************************************************)
C4_UpdateOutOfRange ==
    [][(last'.op = "update" /\ (last'.a < 0 \/ last'.a >= n))
          => (last'.err = "IndexError" /\ arr' = arr /\ tree' = tree)]_vars

(* update(-1, v) on a 3-element tree whose last element is not v. *)
C4_Witness ==
    /\ last.op = "update" /\ last.err = "IndexError"
    /\ n = 3 /\ last.a = -1 /\ arr[2] # last.b

(***************************************************************************)
(* C5.  query_sum, query_mean and query_variance raise ValueError exactly  *)
(* when lo < 0 or hi >= n or lo > hi, and return a value for every         *)
(* 0 <= lo <= hi < n; a failing call returns nothing and leaves the        *)
(* backing sequence and the node slots unchanged.                          *)
(***************************************************************************)
QueryOps == {"query_sum", "query_mean", "query_variance"}

C5_QueryRangeValidation ==
    [][last'.op \in QueryOps =>
          IF last'.a < 0 \/ last'.b >= n \/ last'.a > last'.b
            THEN /\ last'.err = "ValueError" /\ last'.val = NoVal
                 /\ arr' = arr /\ tree' = tree
            ELSE last'.err = "none" /\ last'.val # NoVal]_vars

(* query_sum(0, n) on a 3-element tree is rejected. *)
C5_Witness ==
    /\ last.op = "query_sum" /\ last.err = "ValueError"
    /\ n = 3 /\ last.a = 0 /\ last.b = 3

(***************************************************************************)
(* C6.  A tree built from the empty sequence has no node slot and an empty *)
(* backing sequence; every update and every query on it is rejected by its *)
(* range test, so it raises, returns no value and never reaches the node   *)
(* array.                                                                  *)
(***************************************************************************)
AnyInt == -2 .. 2

C6_EmptyTreeRejectsAll ==
    n = 0 =>
      /\ DOMAIN tree = {} /\ DOMAIN arr = {}
      /\ \A i \in AnyInt : IndexOutOfRange(i)
      /\ \A lo \in AnyInt, hi \in AnyInt :
            /\ query_sum(tree, lo, hi) = <<"ValueError", NoVal>>
            /\ query_mean(tree, lo, hi) = <<"ValueError", NoVal>>
            /\ query_variance(tree, lo, hi) = <<"ValueError", NoVal>>
      /\ last.op = "update" => last.err = "IndexError"
      /\ last.op \in QueryOps => (last.err = "ValueError" /\ last.val = NoVal)

(* query_sum(0, 0) on the empty tree is rejected. *)
C6_Witness ==
    /\ n = 0 /\ last.op = "query_sum" /\ last.a = 0 /\ last.b = 0
    /\ last.err = "ValueError"

(***************************************************************************)
(* C7.  query_variance never returns a negative value; it returns exactly  *)
(* 0 for every single-element range and for every range of equal elements  *)
(* whose sum and sum of squares were added up without rounding (always so  *)
(* for integer elements: [5, 5, 5, 5] over (0, 3), [42] over (0, 0), where *)
(* the mean is 42).                                                        *)
(***************************************************************************)
Aggregate(r) == _query_recursive(tree, 0, 0, n - 1, r[1], r[2])

AllEqual(r) == \A i \in r[1] .. r[2] : arr[i] = arr[r[1]]

(* No addition on the way to the aggregate of r was rounded. *)
SumsExact(r) ==
    LET c == r[2] - r[1] + 1
    IN  /\ Aggregate(r).suma = c * arr[r[1]]
        /\ Aggregate(r).suma_cuadrados = c * Leaf(arr[r[1]]).suma_cuadrados

RECURSIVE Consistent(_, _, _, _, _)
Consistent(t, a, node_idx, lo, hi) ==
    IF lo = hi
      THEN t[node_idx] = [suma |-> a[lo], suma_cuadrados |-> a[lo] * a[lo], count |-> 1]
      ELSE /\ t[node_idx] = _merge(t[2 * node_idx + 1], t[2 * node_idx + 2])
           /\ Consistent(t, a, 2 * node_idx + 1, lo, (lo + hi) \div 2)
           /\ Consistent(t, a, 2 * node_idx + 2, (lo + hi) \div 2 + 1, hi)

C8_TreeConsistentWithArray == n > 0 => Consistent(tree, arr, 0, 0, n - 1)

(* A rejected update that follows a successful one on a 3-element tree. *)
C8_Witness ==
    /\ updated /\ n = 3 /\ last.op = "update" /\ last.err = "IndexError"
    /\ arr[0] # arr[1] /\ arr[1] # arr[2]

(***************************************************************************)
(* C9.  A successful update(index, value) writes only the node slots on    *)
(* the root-to-leaf path of index (one slot per level, the left child iff  *)
(* index <= mid) and only position index of the backing sequence.          *)
(***************************************************************************)
RECURSIVE PathSlots(_, _, _, _)
PathSlots(node_idx, lo, hi, index) ==
    IF lo = hi THEN {node_idx}
    ELSE IF index <= (lo + hi) \div 2
      THEN {node_idx} \cup PathSlots(2 * node_idx + 1, lo, (lo + hi) \div 2, index)
      ELSE {node_idx} \cup PathSlots(2 * node_idx + 2, (lo + hi) \div 2 + 1, hi, index)

C9_UpdateWritesOnlyPath ==
    [][(last'.op = "update" /\ last'.err = "none") =>
          /\ \A k \in DOMAIN tree :
                k \notin PathSlots(0, 0, n - 1, last'.a) => tree'[k] = tree[k]
          /\ \A j \in DOMAIN arr : j # last'.a => arr'[j] = arr[j]
          /\ DOMAIN tree' = DOMAIN tree /\ DOMAIN arr' = DOMAIN arr]_vars

(* update(2, v) on a 3-element tree: the path is slots 0 and 2, and the    *)
(* leaves in slots 3 and 4 hold values other than v.                       *)
C9_Witness ==
    /\ Succeeded("update") /\ n = 3 /\ last.a = 2
    /\ PathSlots(0, 0, 2, 2) = {0, 2}
    /\ tree[2].suma = last.b /\ tree[3].suma # last.b /\ tree[4].suma # last.b

(***************************************************************************)
(* C10.  The backing sequence is never shared with the caller: get_array   *)
(* returns a new list equal to the backing sequence, and a store by the    *)
(* caller into that list or into the list passed to the constructor        *)
(* changes neither the backing sequence nor any node slot, hence no later  *)
(* query and no later get_array; an update does not change the caller's    *)
(* list.                                                                   *)
(***************************************************************************)
C10_StateOwned ==
    /\ self_arr \notin held
    /\ (Succeeded("get_array") /\ nwrites = 0) =>
          (last.ref # self_arr /\ heap[last.ref] = arr)
    /\ n > 0 => Consistent(tree, arr, 0, 0, n - 1)

C10_CallerWriteFrame ==
    last'.op = "caller_write" =>
       /\ arr' = arr /\ tree' = tree
       /\ \A r \in ValidRanges : query_sum(tree', r[1], r[2]) = query_sum(tree, r[1], r[2])

(* An update reaches the backing sequence and not the caller's list. *)
C10_UpdateFrame ==
    (last'.op = "update" /\ last'.err = "none") =>
       /\ arr' = Replaced(arr, last'.a, last'.b)
       /\ "arg" \in held => heap'["arg"] = heap["arg"]

C10_BackingSequenceNotAliased ==
    []C10_StateOwned /\ [][C10_CallerWriteFrame /\ C10_UpdateFrame]_vars

(* The caller stored into the list it had passed to the constructor, and   *)
(* that list now differs from the backing sequence of an updated tree.     *)
C10_Witness ==
    /\ last.op = "caller_write" /\ last.ref = "arg" /\ updated
    /\ n = 2 /\ heap["arg"][last.a] = last.b /\ arr[last.a] # last.b

(***************************************************************************)
(* C11.  query_sum, query_mean, query_variance and get_array are read-only *)
(* and deterministic: a call, valid or not, leaves the backing sequence    *)
(* and every node slot unchanged (the walk writes no slot and does not     *)
(* modify the stored node it returns on total overlap), and what it        *)
(* returns is what the same call returns in the state it leaves, so the    *)
(* call repeated with no update in between returns the same result.        *)
(***************************************************************************)
ResultOf(op, t, lo, hi) ==
    IF op = "query_sum" THEN query_sum(t, lo, hi)
    ELSE IF op = "query_mean" THEN query_mean(t, lo, hi)
    ELSE query_variance(t, lo, hi)

C11_ReadOnlyStep ==
    /\ last'.op \in QueryOps =>
          /\ arr' = arr /\ tree' = tree
          /\ <<last'.err, last'.val>> = ResultOf(last'.op, tree', last'.a, last'.b)
    /\ last'.op = "get_array" =>
          /\ arr' = arr /\ tree' = tree
          /\ heap'[last'.ref] = arr

C11_QueriesReadOnly == [][C11_ReadOnlyStep]_vars

(* query_mean(1, 2) on an updated 3-element tree: the walk returned the    *)
(* stored leaves of slots 4 and 2 and merged them.                         *)
C11_Witness ==
    /\ Succeeded("query_mean") /\ updated /\ n = 3 /\ last.a = 1 /\ last.b = 2
    /\ QueryWalk(tree, 0, 0, 2, 1, 2).alias = -1
    /\ QueryWalk(tree, 2, 2, 2, 1, 2).alias = 2
    /\ last.val = get_mean(_merge(tree[4], tree[2]))

(***************************************************************************)
(* C12.  Node() = (0, 0, 0) is a two-sided identity of _merge: for every   *)
(* aggregate x, _merge(Node(), x) and _merge(x, Node()) have the sum, the  *)
(* sum of squares and the count of x.  The aggregates are the stored nodes *)
(* and the results of the walk over every valid range, with integer and    *)
(* with float sums.                                                        *)
(***************************************************************************)
AggregatesInUse ==
    {tree[i] : i \in DOMAIN tree} \cup {Aggregate(r) : r \in ValidRanges}

SameFields(x, y) ==
    /\ x.suma = y.suma
    /\ x.suma_cuadrados = y.suma_cuadrados
    /\ x.count = y.count

C12_EmptyNodeIsMergeIdentity ==
    /\ EmptyNode.suma = 0 /\ EmptyNode.suma_cuadrados = 0 /\ EmptyNode.count = 0
    /\ \A x \in AggregatesInUse :
          /\ SameFields(_merge(EmptyNode, x), x)
          /\ SameFields(_merge(x, EmptyNode), x)

(* Float tree of two elements, query_sum(1, 1): the left child does not    *)
(* overlap and contributes Node(), the right child is returned whole, and  *)
(* the root merges the two.                                                *)
C12_Witness ==
    /\ arith = "float" /\ n = 2 /\ updated
    /\ Succeeded("query_sum") /\ last.a = 1 /\ last.b = 1
    /\ _query_recursive(tree, 1, 0, 0, 1, 1) = EmptyNode
    /\ Aggregate(<<1, 1>>) = _merge(EmptyNode, tree[2])
    /\ last.val = <<tree[2].suma, 1>>
    /\ tree[2].count = 1

(***************************************************************************)
(* C13.  _merge is associative: for any three aggregates a, b, c,          *)
(* _merge(_merge(a, b), c) and _merge(a, _merge(b, c)) have equal sum,     *)
(* sum of squares and count, so the aggregate of a range does not depend   *)
(* on how the range is split.  As stated it holds of sums that are added   *)
(* without rounding; C13_MergeAssociative is the statement for all         *)
(* aggregates, C13_MergeAssociativeUpToRounding the one that holds of      *)
(* float sums as well: the counts are always equal, the sums are equal     *)
(* when none of the additions rounds, and otherwise they differ by at most *)
(* four rounding units of the exact sum.                                   *)
(***************************************************************************)
MergedLeft(a, b, c) == _merge(_merge(a, b), c)

MergedRight(a, b, c) == _merge(a, _merge(b, c))

ExactAdd(p, q) == PyAdd(p, q) = p + q

(* None of the four additions of p, q, r in the two groupings rounds. *)
ExactAdds(p, q, r) ==
    /\ ExactAdd(p, q) /\ ExactAdd(p + q, r)
    /\ ExactAdd(q, r) /\ ExactAdd(p, q + r)

WithinRounding(x, y, exact) == Abs(x - y) * Pow2(Precision) <= 4 * Abs(exact)

StoredNodes == {tree[i] : i \in DOMAIN tree}

TreeJustWritten == last.op = "construct" \/ Succeeded("update")

DirectStat(op, a, lo, hi) ==
    IF op = "query_sum" THEN <<DirectSum(a, lo, hi), 1>>
    ELSE IF op = "query_mean" THEN DirectMean(a, lo, hi)
    ELSE DirectVariance(a, lo, hi)

Ready ==
    /\ (n > 0 /\ last.err # "none")
          => ENABLED (Update(n - 1, 3) /\ last'.err = "none")
    /\ n > 0 => ENABLED (QuerySum(0, n - 1) /\ last'.err = "none")
    /\ \A r \in ValidRanges :
          /\ query_sum(tree, r[1], r[2]) = <<"none", <<DirectSum(arr, r[1], r[2]), 1>>>>
          /\ query_mean(tree, r[1], r[2]) = <<"none", DirectMean(arr, r[1], r[2])>>
          /\ query_variance(tree, r[1], r[2]) = <<"none", DirectVariance(arr, r[1], r[2])>>
    /\ (last.op \in QueryOps /\ last.err = "none")
          => last.val = DirectStat(last.op, arr, last.a, last.b)
    /\ n > 0 => Consistent(tree, arr, 0, 0, n - 1)
    /\ ENABLED GetArray

C14_ReadyStep ==
    /\ (last'.op = "update" /\ 0 <= last'.a /\ last'.a < n)
          => (last'.err = "none" /\ arr' = Replaced(arr, last'.a, last'.b))
    /\ (last'.op \in QueryOps /\ 0 <= last'.a /\ last'.a <= last'.b /\ last'.b < n)
          => last'.err = "none"
    /\ last'.err # "none" => (arr' = arr /\ tree' = tree /\ n' = n)

C14_AlwaysReady == []Ready /\ [][C14_ReadyStep]_vars

(* A rejected query on a 3-element tree that was updated before: the tree  *)
(* is ready, and the update of its last element can be taken.              *)
C14_Witness ==
    /\ updated /\ n = 3 /\ last.op = "query_sum" /\ last.err = "ValueError"
    /\ last.a = 2 /\ last.b = 1
    /\ Ready
    /\ ENABLED (Update(2, 3) /\ last'.err = "none" /\ tree'[2] = Leaf(3) /\ tree'[2] # tree[2])

(***************************************************************************)
(* C15.  For the sequence [10,20,30,40,50], update(0, 30) followed by      *)
(* update(4, 30) leaves get_array() = [30,20,30,40,30], and                *)
(* query_variance(0, 4) is strictly smaller after each of the two updates  *)
(* than before it (200, then 104, then 40).                                *)
(***************************************************************************)
ScenarioC == FromSeq(<<10, 20, 30, 40, 50>>)

ScenarioCAfterFirst == FromSeq(<<30, 20, 30, 40, 50>>)

ScenarioCAfterBoth == FromSeq(<<30, 20, 30, 40, 30>>)

VarianceAll(t) == query_variance(t, 0, n - 1)[2]

IsUpdateStep(index, new_value) ==
    last'.op = "update" /\ last'.a = index /\ last'.b = new_value

C15_ScenarioCStep ==
    /\ (arr = ScenarioC /\ IsUpdateStep(0, 30)) =>
          /\ last'.err = "none" /\ arr' = ScenarioCAfterFirst
          /\ VarianceAll(tree) = <<200, 1>> /\ VarianceAll(tree') = <<104, 1>>
          /\ RatLess(VarianceAll(tree'), VarianceAll(tree))
    /\ (arr = ScenarioCAfterFirst /\ IsUpdateStep(4, 30)) =>
          /\ last'.err = "none" /\ arr' = ScenarioCAfterBoth
          /\ VarianceAll(tree') = <<40, 1>>
          /\ RatLess(VarianceAll(tree'), VarianceAll(tree))
    /\ (arr = ScenarioCAfterBoth /\ last'.op = "get_array") =>
          heap'[last'.ref] = ScenarioCAfterBoth
    /\ (arr = ScenarioCAfterBoth /\ last'.op = "query_variance"
          /\ last'.a = 0 /\ last'.b = 4) => last'.val = <<40, 1>>

C15_ScenarioC == [][C15_ScenarioCStep]_vars

(* get_array() has just returned [30,20,30,40,30] and the variance of the  *)
(* whole range is 40.                                                      *)
C15_Witness ==
    /\ updated /\ n = 5 /\ arr = ScenarioCAfterBoth
    /\ last.op = "get_array" /\ heap[last.ref] = ScenarioCAfterBoth
    /\ VarianceAll(tree) = <<40, 1>>

(***************************************************************************)
(* C16.  The tree takes no lock and is consistent only under serialized    *)
(* access.  When every call runs to completion before the next starts,     *)
(* after the calls have returned every ancestor slot is the merge of its   *)
(* two children and every query returns the statistic of the backing       *)
(* sequence.  When two updates on different indices interleave at single   *)
(* slot reads and writes, a state is reachable, after both have returned,  *)
(* in which an ancestor slot is not the merge of its children (a stale     *)
(* parent write) and a later query returns a wrong value: C16_Witness.     *)
(***************************************************************************)
StaleSlots ==
    {i \in DOMAIN tree :
        /\ tree[i].count > 1
        /\ RightChild(i) \in DOMAIN tree
        /\ tree[i] # _merge(tree[LeftChild(i)], tree[RightChild(i)])}

C16_SerialCallsKeepTreeConsistent ==
    (schedule = "serial" /\ Quiescent) =>
        /\ StaleSlots = {}
        /\ n > 0 => Consistent(tree, arr, 0, 0, n - 1)
        /\ \A r \in ValidRanges :
              /\ query_sum(tree, r[1], r[2]) = <<"none", <<DirectSum(arr, r[1], r[2]), 1>>>>
              /\ query_variance(tree, r[1], r[2])
                    = <<"none", DirectVariance(arr, r[1], r[2])>>
        /\ Succeeded("query_sum") => last.val = <<DirectSum(arr, last.a, last.b), 1>>

(* Interleaved schedule: both threads have returned from updates of        *)
(* different indices, the root is not the merge of its children, and the   *)
(* query_sum that followed returned a value that is not the sum of the     *)
(* elements.                                                               *)
C16_Witness ==
    /\ schedule = "interleaved" /\ Quiescent /\ ncalls = 2
    /\ threads[1].index # threads[2].index
    /\ \A t \in Threads : ~IndexOutOfRange(threads[t].index)
                          /\ arr[threads[t].index] = threads[t].value
    /\ 0 \in StaleSlots
    /\ Succeeded("query_sum") /\ last.a = 0 /\ last.b = n - 1
    /\ last.val # <<DirectSum(arr, 0, n - 1), 1>>

(***************************************************************************)
(* C17.  4 * n slots are enough: for every n >= 1, every slot index that   *)
(* _build, _update_recursive or _query_recursive reads or writes lies in   *)
(* 0 .. 4n - 1 and in the node array, so no operation indexes outside it.  *)
(***************************************************************************)
SlotsUsed ==
    BuildSlots(0, 0, n - 1)
      \cup UNION {UpdateSlots(0, 0, n - 1, i) : i \in 0 .. n - 1}
      \cup UNION {QuerySlots(r) : r \in ValidRanges}

C17_CapacitySufficient ==
    n >= 1 =>
        /\ \A i \in SlotsUsed : 0 <= i /\ i < 4 * n /\ i \in DOMAIN tree
        /\ Succeeded("update") => UpdateSlots(0, 0, n - 1, last.a) \subseteq DOMAIN tree
        /\ Succeeded("query_variance")
              => QuerySlots(<<last.a, last.b>>) \subseteq DOMAIN tree

(* n = 6: the leaf of element 4 lives in slot 12 = 2n, and                 *)
(* query_variance(4, 4) has just read it.                                  *)
C17_Witness ==
    /\ n = 6 /\ updated /\ Succeeded("query_variance") /\ last.a = 4 /\ last.b = 4
    /\ QuerySlots(<<4, 4>>) = {12}
    /\ 12 \in BuildSlots(0, 0, 5) /\ 12 \in UpdateSlots(0, 0, 5, 4)
    /\ tree[12].count = 1 /\ last.val = get_variance(tree[12])

(***************************************************************************)
(* C18.  Between public calls every slot that covers a range [lo, hi] of   *)
(* the partition has count = hi - lo + 1: 1 at every leaf, n at the root.  *)
(* update changes the count of no slot.                                    *)
(***************************************************************************)
RECURSIVE CountsMatch(_, _, _, _)
CountsMatch(t, node_idx, lo, hi) ==
    /\ t[node_idx].count = hi - lo + 1
    /\ lo < hi =>
          /\ CountsMatch(t, LeftChild(node_idx), lo, Mid(lo, hi))
          /\ CountsMatch(t, RightChild(node_idx), Mid(lo, hi) + 1, hi)

(* The slot of the leaf of element i is the one a query of [i, i] reads. *)
LeafSlots == UNION {QuerySlots(<<i, i>>) : i \in 0 .. n - 1}

CountsInvariant ==
    n > 0 =>
        /\ CountsMatch(tree, 0, 0, n - 1)
        /\ tree[0].count = n
        /\ \A k \in LeafSlots : tree[k].count = 1

CountsKeptByUpdate ==
    last'.op = "update" => \A k \in DOMAIN tree : tree'[k].count = tree[k].count

C18_CountIsRangeLength == []CountsInvariant /\ [][CountsKeptByUpdate]_vars

(* update(4, 3) on a tree of six elements: the leaf in slot 12 has a new   *)
(* sum and still counts one element, the root still counts six.            *)
C18_Witness ==
    /\ n = 6 /\ Succeeded("update") /\ last.a = 4 /\ last.b = 3
    /\ tree[12] = Leaf(3) /\ tree[12].count = 1
    /\ tree[0].count = 6 /\ tree[0].suma >= 3
    /\ 12 \in LeafSlots

(***************************************************************************)
(* C19.  For every valid query 0 <= lo <= hi < n the ranges of the nodes   *)
(* at which the walk returns by total overlap are pairwise disjoint and    *)
(* their union is exactly lo .. hi; so the aggregate returned has          *)
(* count = hi - lo + 1 >= 1 and the count = 0 branch of the statistics is  *)
(* not taken.  A leaf is never a partial overlap: every node the walk      *)
(* visits has a non-empty range and a slot of the array.                   *)
(***************************************************************************)
TotalVisits(r) == {v \in QueryVisits(r) : v.case = "total"}

PartialVisits(r) == {v \in QueryVisits(r) : v.case = "partial"}

RECURSIVE CountOver(_)
CountOver(vs) ==
    IF vs = {} THEN 0
    ELSE LET v == CHOOSE w \in vs : TRUE
         IN  tree[v.node_idx].count + CountOver(vs \ {v})

ExactCover(r) ==
    \A tv \in {TotalVisits(r)}, ag \in {Aggregate(r)} :
        /\ \A v \in tv, w \in tv :
              v # w => (v.right < w.left \/ w.right < v.left)
        /\ UNION {v.left .. v.right : v \in tv} = r[1] .. r[2]
        /\ ag.count = CountOver(tv)
        /\ ag.count = r[2] - r[1] + 1
        /\ ag.count >= 1
        /\ \A v \in PartialVisits(r) : v.left < v.right
        /\ \A v \in QueryVisits(r) : v.left <= v.right /\ v.node_idx \in DOMAIN tree

C19_TotalOverlapNodesCoverRange ==
    /\ \A r \in ValidRanges : ExactCover(r)
    /\ Succeeded("query_variance") =>
          /\ Aggregate(<<last.a, last.b>>).count = last.b - last.a + 1
          /\ last.val = Max0(Varianza(Aggregate(<<last.a, last.b>>)))

(* query_variance(1, 4) on six elements: the walk returned at the leaves   *)
(* of 1 and 2 and at the node of [3, 4].                                   *)
C19_Witness ==
    /\ n = 6 /\ updated /\ Succeeded("query_variance") /\ last.a = 1 /\ last.b = 4
    /\ {<<v.left, v.right>> : v \in TotalVisits(<<1, 4>>)}
          = {<<1, 1>>, <<2, 2>>, <<3, 4>>}
    /\ Cardinality(PartialVisits(<<1, 4>>)) = 4
    /\ Aggregate(<<1, 4>>).count = 4

(***************************************************************************)
(* C20.  A query visits logarithmically many nodes: for every n and every  *)
(* valid range the walk returns by total overlap at no more than two nodes *)
(* of a level and recurses (partial overlap) at no more than two nodes of  *)
(* a level, so there are at most 2 * (number of levels) nodes of each      *)
(* kind, whatever n is.                                                    *)
(***************************************************************************)
RECURSIVE Levels(_, _)
Levels(left, right) ==
    IF left >= right THEN 1
    ELSE LET l == Levels(left, Mid(left, right))
             r == Levels(Mid(left, right) + 1, right)
         IN  1 + (IF l >= r THEN l ELSE r)

AtLevel(vs, level) == {v \in vs : v.level = level}

TwoPerLevel(r) ==
    \A h \in {Levels(0, n - 1)}, tv \in {TotalVisits(r)}, pv \in {PartialVisits(r)} :
        /\ \A v \in QueryVisits(r) : v.level \in 0 .. h - 1
        /\ \A level \in 0 .. h - 1 :
              /\ Cardinality(AtLevel(tv, level)) <= 2
              /\ Cardinality(AtLevel(pv, level)) <= 2
        /\ Cardinality(tv) <= 2 * h
        /\ Cardinality(pv) <= 2 * h

C20_AtMostTwoNodesPerLevel ==
    /\ \A r \in ValidRanges : TwoPerLevel(r)
    /\ Succeeded("query_variance") =>
          Cardinality(QuerySlots(<<last.a, last.b>>)) <= 2 * Levels(0, n - 1)

(* query_variance(2, 4) on six elements, a tree of four levels: two        *)
(* partial-overlap nodes at level 1 and two total-overlap nodes at level 2.*)
C20_Witness ==
    /\ n = 6 /\ updated /\ Succeeded("query_variance") /\ last.a = 2 /\ last.b = 4
    /\ Levels(0, 5) = 4
    /\ Cardinality(AtLevel(PartialVisits(<<2, 4>>), 1)) = 2
    /\ Cardinality(AtLevel(TotalVisits(<<2, 4>>), 2)) = 2
    /\ Cardinality(QueryVisits(<<2, 4>>)) = 7

(***************************************************************************)
(* C21.  The node array depends on the current elements only.  In every    *)
(* reachable state it is, slot by slot, the array a constructor builds     *)
(* from the backing sequence, and every slot outside the partition of      *)
(* [0, n-1] is Node() = (0, 0, 0).  From every array that is reached, two  *)
(* updates of one index leave the array that the second alone leaves, and  *)
(* two updates of different indices leave the same array in either order.  *)
(***************************************************************************)
(* self.tree as __init__ leaves it for the elements a. *)
FreshTree(a) ==
    IF n > 0 THEN _build(BlankTree(n), a, 0, 0, n - 1) ELSE BlankTree(n)

(* The slots _build assigns: the nodes of the partition of [0, n-1]. *)
ReachedSlots == IF n > 0 THEN BuildSlots(0, 0, n - 1) ELSE {}

Updated(t, index, new_value) == _update_recursive(t, 0, 0, n - 1, index, new_value)

SameAsFresh ==
    \A fresh \in {FreshTree(arr)} :
        /\ DOMAIN tree = DOMAIN fresh
        /\ \A k \in DOMAIN tree : SameFields(tree[k], fresh[k])
        /\ tree = fresh
        /\ \A k \in DOMAIN tree \ ReachedSlots : tree[k] = EmptyNode

(* The array after one more update, for every valid index and value. *)
OneMore == [u \in (0 .. n - 1) \X ShapeVals |-> Updated(tree, u[1], u[2])]

(* Queries and rejected calls leave the array as it is, so the arrays to   *)
(* start from are those left by the constructor and by successful updates. *)
HistoryForgotten ==
    (last.op = "construct" \/ Succeeded("update")) =>
        \A next \in {OneMore} :
            \A u \in DOMAIN next, w \in DOMAIN next :
                /\ u[1] = w[1] => Updated(next[u], w[1], w[2]) = next[w]
                /\ u[1] < w[1] =>
                      Updated(next[u], w[1], w[2]) = Updated(next[w], u[1], u[2])

C21_TreeDependsOnSequenceOnly == SameAsFresh /\ HistoryForgotten

(* Six elements, all zero at construction: after updates of elements 0 and *)
(* 5 to 3 and of element 0 back to 0 the array is that of a tree built     *)
(* from [0,0,0,0,0,3]; slots 9 and 10 lie between reached slots and are    *)
(* empty.                                                                  *)
C21_Witness ==
    /\ n = 6 /\ Succeeded("update") /\ last.a = 0 /\ last.b = 0
    /\ arr = FromSeq(<<0, 0, 0, 0, 0, 3>>)
    /\ tree = FreshTree(arr)
    /\ tree[0].suma = 3 /\ tree[12].suma = 0 /\ tree[6] = Leaf(3)
    /\ {9, 10} \cap ReachedSlots = {} /\ {8, 11, 12} \subseteq ReachedSlots
    /\ tree[9] = EmptyNode /\ tree[10] = EmptyNode

(***************************************************************************)
(* C22.  Every operation terminates.  For every n >= 1, each call of       *)
(* _build, _update_recursive and _query_recursive below the one made from  *)
(* the root is made by a call one level up, on a non-empty range that lies *)
(* inside the caller's range and is strictly shorter; no chain of nested   *)
(* calls is longer than ceil(log2 n) + 1; and the constructor stores into  *)
(* exactly 2n - 1 slots, n as leaves and n - 1 as internal nodes, each     *)
(* once, which are the slots that hold a node afterwards.                  *)
(***************************************************************************)
(* The calls of _build made for one construction. *)
RECURSIVE BuildCalls(_, _, _, _)
BuildCalls(node_idx, left, right, level) ==
    IF left = right
      THEN {Visit(node_idx, left, right, level, "leaf")}
      ELSE {Visit(node_idx, left, right, level, "internal")}
             \cup BuildCalls(LeftChild(node_idx), left, Mid(left, right), level + 1)
             \cup BuildCalls(RightChild(node_idx), Mid(left, right) + 1, right,
                             level + 1)

(* The slots _build stores into, in the order of the stores. *)
RECURSIVE BuildWrites(_, _, _)
BuildWrites(node_idx, left, right) ==
    IF left = right
      THEN <<node_idx>>
      ELSE BuildWrites(LeftChild(node_idx), left, Mid(left, right))
             \o BuildWrites(RightChild(node_idx), Mid(left, right) + 1, right)
             \o <<node_idx>>

(* The calls of _update_recursive made for one update. *)
RECURSIVE UpdateCalls(_, _, _, _, _)
UpdateCalls(node_idx, left, right, level, target_idx) ==
    IF left = right
      THEN {Visit(node_idx, left, right, level, "leaf")}
      ELSE {Visit(node_idx, left, right, level, "internal")}
             \cup (IF target_idx <= Mid(left, right)
                     THEN UpdateCalls(LeftChild(node_idx), left, Mid(left, right),
                                      level + 1, target_idx)
                     ELSE UpdateCalls(RightChild(node_idx), Mid(left, right) + 1,
                                      right, level + 1, target_idx))

(* The slot whose call made the call for node_idx. *)
Parent(node_idx) == (node_idx - 1) \div 2

(* Every call but the first is made by a call of the same walk on a        *)
(* longer range that contains its own, and no range is empty.              *)
Shrinking(calls) ==
    \A c \in calls :
        /\ c.left <= c.right
        /\ c.level = 0 => c.node_idx = 0 /\ c.left = 0 /\ c.right = n - 1
        /\ c.level > 0 =>
              \E p \in calls :
                  /\ p.node_idx = Parent(c.node_idx) /\ p.level = c.level - 1
                  /\ p.left <= c.left /\ c.right <= p.right
                  /\ c.right - c.left < p.right - p.left

(* The longest chain of nested calls. *)
Depth(calls) == 1 + CHOOSE d \in {c.level : c \in calls} :
                       \A c \in calls : c.level <= d

(* ceil(log2 k) for k >= 1 *)
RECURSIVE CeilLog2(_)
CeilLog2(k) == IF k <= 1 THEN 0 ELSE 1 + CeilLog2((k + 1) \div 2)

Bounded(calls) == Shrinking(calls) /\ Depth(calls) <= CeilLog2(n) + 1

WrittenOnce(writes) ==
    /\ Len(writes) = 2 * n - 1
    /\ \A i \in 1 .. Len(writes), j \in 1 .. Len(writes) :
          i # j => writes[i] # writes[j]
    /\ {writes[i] : i \in 1 .. Len(writes)} = {k \in DOMAIN tree : tree[k] # EmptyNode}

C22_OperationsTerminate ==
    n >= 1 =>
        /\ \A calls \in {BuildCalls(0, 0, n - 1, 0)} :
              /\ Bounded(calls)
              /\ Cardinality({c \in calls : c.case = "leaf"}) = n
              /\ Cardinality({c \in calls : c.case = "internal"}) = n - 1
              /\ {c.node_idx : c \in calls} = {k \in DOMAIN tree : tree[k] # EmptyNode}
        /\ \A writes \in {BuildWrites(0, 0, n - 1)} : WrittenOnce(writes)
        /\ Succeeded("update") =>
              \A calls \in {UpdateCalls(0, 0, n - 1, 0, last.a)} :
                  Bounded(calls) /\ Cardinality(calls) = Depth(calls)
        /\ Succeeded("query_variance") =>
              \A calls \in {QueryVisits(<<last.a, last.b>>)} : Bounded(calls)

(* Five elements, update(1, 3): the construction stored into nine slots,   *)
(* and the update went four calls deep, 0 .. 4, 0 .. 2, 0 .. 1 and 1 .. 1, *)
(* which is ceil(log2 5) + 1.                                              *)
C22_Witness ==
    /\ n = 5 /\ Succeeded("update") /\ last.a = 1 /\ last.b = 3
    /\ Len(BuildWrites(0, 0, 4)) = 9
    /\ CeilLog2(5) = 3
    /\ Depth(UpdateCalls(0, 0, 4, 0, 1)) = 4
    /\ {<<c.left, c.right>> : c \in UpdateCalls(0, 0, 4, 0, 1)}
          = {<<0, 4>>, <<0, 2>>, <<0, 1>>, <<1, 1>>}
    /\ Depth(BuildCalls(0, 0, 4, 0)) = 4

====
